---- MODULE Spec2Model ----
(***************************************************************************)
(* auth-42-api: OAuth2 client-credentials helper.                          *)
(*   token.py   TokenInfo (record, is_expired), TokenManager (cache file)  *)
(*   client.py  Auth42 (get_token, _request_token, get_token_info, ...)    *)
(* The state is the cache file, the wall clock and a log of the last call  *)
(* (its inputs, what it returned or raised, how many HTTP requests it      *)
(* sent).  Every operation is one atomic step: the code is synchronous.    *)
(* Spec        one client, every operation of Auth42 on the cache file     *)
(* StoreSpec   TokenInfo and TokenManager alone, called in any order       *)
(* ClientSpec  the construction of Auth42                                  *)
(* RaceSpec    two processes on one cache file, one system call per step   *)
(***************************************************************************)
EXTENDS Integers, FiniteSets, Sequences, TLC

VARIABLES
    now,    \* time.time(), in whole seconds
    ticks,  \* number of clock advances so far (bounds the behaviour)
    file,   \* content of TokenManager.token_file
    last,   \* log of the last operation
    procs   \* RaceSpec: where each process is in its call of TokenManager

vars == <<now, ticks, file, last, procs>>

----------------------------------------------------------------------------
(* Bounds *)

MaxTicks == 2

\* The clock advances by one of these amounts of seconds.
TickSteps == {1, 39, 7100}

----------------------------------------------------------------------------
(* JSON values, as far as the code distinguishes them *)

Missing == [k |-> "missing", n |-> 0, s |-> ""]   \* key not in the object
Null    == [k |-> "null",    n |-> 0, s |-> ""]   \* JSON null / Python None
Str(x)  == [k |-> "str",     n |-> 0, s |-> x]
Num(x)  == [k |-> "num",     n |-> x, s |-> ""]

IsNum(v) == v.k = "num"
IsStr(v) == v.k = "str"

\* dict.get(key, default): the default only replaces a missing key
Get(v, default) == IF v = Missing THEN default ELSE v

\* An object with the five keys of the record format, each present or not.
Obj(at, tt, ei, ca, sc) ==
    [access_token |-> at, token_type |-> tt, expires_in |-> ei,
     created_at |-> ca, scope |-> sc]

NoObj == Obj(Missing, Missing, Missing, Missing, Missing)

\* A document: st is what parsing it gives.
\*   "nofile"      the path does not exist
\*   "undecodable" bytes that are not text in the locale's encoding
\*   "notjson"     text that is not JSON (also an empty or truncated file)
\*   "empty"       a file of length 0, as open(..., "w") leaves it
\*   "mixed"       a JSON object followed by the end of a longer one
\*   "scalar"      a JSON number, true, false or null
\*   "str"/"strAT" a JSON string without / containing the text access_token
\*   "list"/"listAT" a JSON array without / with the element "access_token"
\*   "obj"         a JSON object, o holds its keys
Doc(st) == [st |-> st, o |-> NoObj]
ObjDoc(o) == [st |-> "obj", o |-> o]

NoFile == Doc("nofile")

----------------------------------------------------------------------------
(* Exceptions and results *)

NoStatus == 0          \* Auth42Error.status_code = None

DefaultExpiresIn == 7200
ExpiryMargin == 60

\* Result of a call: exc = "none" when it returned, ret is the value returned,
\* posts/gets count the HTTP requests sent, f is the cache file afterwards.
Result(exc, status, ret, posts, gets, f) ==
    [exc |-> exc, status |-> status, ret |-> ret,
     posts |-> posts, gets |-> gets, file |-> f]

----------------------------------------------------------------------------
(* token.py *)

\* Mutation of is_expired: the record expires one second late
is_expired_late(rec, t) ==
    IF ~IsNum(rec.created_at) \/ ~IsNum(rec.expires_in)
    THEN [exc |-> "TypeError", val |-> FALSE]
    ELSE [exc |-> "none",
          val |-> (t - rec.created_at.n) > (rec.expires_in.n - ExpiryMargin)]

\* Mutation of is_expired: no safety margin
is_expired_no_margin(rec, t) ==
    IF ~IsNum(rec.created_at) \/ ~IsNum(rec.expires_in)
    THEN [exc |-> "TypeError", val |-> FALSE]
    ELSE [exc |-> "none",
          val |-> (t - rec.created_at.n) >= rec.expires_in.n]

\* TokenInfo.is_expired at time t; arithmetic on a non-number raises TypeError
is_expired(rec, t) ==
    IF ~IsNum(rec.created_at) \/ ~IsNum(rec.expires_in)
    THEN [exc |-> "TypeError", val |-> FALSE]
    ELSE [exc |-> "none",
          val |-> (t - rec.created_at.n) >= (rec.expires_in.n - ExpiryMargin)]

\* TokenInfo.expires_at
expires_at(rec) == rec.created_at.n + rec.expires_in.n

\* Mutation of from_dict: a missing created_at is the epoch
from_dict_created_at_epoch(o, t) ==
    Obj(o.access_token,
        Get(o.token_type, Str("bearer")),
        Get(o.expires_in, Num(DefaultExpiresIn)),
        Get(o.created_at, Num(0)),
        Get(o.scope, Null))

\* TokenInfo.from_dict at time t, for an object that has access_token
from_dict(o, t) ==
    Obj(o.access_token,
        Get(o.token_type, Str("bearer")),
        Get(o.expires_in, Num(DefaultExpiresIn)),
        Get(o.created_at, Num(t)),
        Get(o.scope, Null))

\* Mutation of to_dict: created_at is not written
to_dict_without_created_at(rec) == ObjDoc([rec EXCEPT !.created_at = Missing])

\* TokenInfo.to_dict followed by json.dump: the five keys are always written,
\* a str as a JSON string, an int or float as a number, None as null
to_dict(rec) == ObjDoc(rec)

\* TokenManager.load_token at time t:
\*   [exc, some, rec]; some = FALSE is None
\*   no file: None;  bytes that do not decode: UnicodeDecodeError, not caught;
\*   not JSON: JSONDecodeError, caught;  not an object: TypeError from
\*   data["access_token"], caught;  no access_token: KeyError, caught
load_token(f, t) ==
    IF f.st = "nofile"
      THEN [exc |-> "none", some |-> FALSE, rec |-> NoObj]
    ELSE IF f.st = "undecodable"
      THEN [exc |-> "UnicodeDecodeError", some |-> FALSE, rec |-> NoObj]
    ELSE IF f.st \in {"notjson", "empty", "mixed"}
      THEN [exc |-> "none", some |-> FALSE, rec |-> NoObj]
    ELSE IF f.st # "obj"
      THEN [exc |-> "none", some |-> FALSE, rec |-> NoObj]
    ELSE IF f.o.access_token = Missing
      THEN [exc |-> "none", some |-> FALSE, rec |-> NoObj]
    ELSE [exc |-> "none", some |-> TRUE, rec |-> from_dict(f.o, t)]

\* Outcomes of open(token_file, "w") + json.dump
SaveOutcomes == {"ok", "open_fails", "write_fails"}

\* Mutation of save_token: nothing is written
save_token_writes_nothing(rec, f, outcome) ==
    IF outcome = "ok" THEN [exc |-> "none", file |-> f]
    ELSE [exc |-> "OSError", file |-> f]

\* TokenManager.save_token: [exc, file]
\*   open fails: the file is as it was;  the write fails after open has
\*   truncated the file: what is left is not a JSON document
save_token(rec, f, outcome) ==
    IF outcome = "ok" THEN [exc |-> "none", file |-> to_dict(rec)]
    ELSE IF outcome = "open_fails" THEN [exc |-> "OSError", file |-> f]
    ELSE [exc |-> "OSError", file |-> Doc("notjson")]

\* Mutation of clear_token: only a file that load_token accepts is deleted
clear_token_if_loadable(f) ==
    IF f.st = "obj" /\ f.o.access_token # Missing THEN NoFile ELSE f

\* TokenManager.clear_token: unlink when the file exists, else nothing
clear_token(f) == IF f.st # "nofile" THEN NoFile ELSE f

\* TokenManager.has_token
has_token(f) == f.st # "nofile"

----------------------------------------------------------------------------
(* token.py, as several processes run it: one system call at a time *)

Procs == {1, 2}

\* A process in a call of TokenManager.  pc: "start" before the call,
\* "opened" after open(token_file, "w") of save_token, "checked" after
\* token_file.exists() of clear_token gave True, "done" when the call has
\* returned or raised exc.  rec: the record save_token writes.  linked: the
\* file the process has open is still the one at the path
Proc(pc, op, rec, exc, linked) ==
    [pc |-> pc, op |-> op, rec |-> rec, exc |-> exc, linked |-> linked]

NoProc == Proc("start", "none", NoObj, "none", FALSE)

NoProcs == [p \in Procs |-> NoProc]

\* Number of decimal digits of n >= 0
RECURSIVE Digits(_)
Digits(n) == IF n < 10 THEN 1 ELSE 1 + Digits(n \div 10)

\* Length of the text json.dump writes for a value: a string in quotes, a
\* number, null
JsonSize(v) ==
    IF IsStr(v) THEN Len(v.s) + 2
    ELSE IF IsNum(v) THEN Digits(v.n)
    ELSE 4

\* Length of the text json.dump writes for a record: the five values; the
\* keys and the punctuation are the same for every record
RecordSize(rec) ==
    JsonSize(rec.access_token) + JsonSize(rec.token_type)
    + JsonSize(rec.expires_in) + JsonSize(rec.created_at) + JsonSize(rec.scope)

\* open(token_file, "w"): the file is created or cut to length 0
Truncated == Doc("empty")

\* The write of the whole text of rec at offset 0, at close: a process that
\* opened the file before the other one wrote finds the other's text there
\* and replaces its first RecordSize(rec) characters only
Overwrite(f, rec) ==
    IF f.st = "empty" THEN to_dict(rec)
    ELSE IF f.st = "obj" /\ RecordSize(f.o) <= RecordSize(rec) THEN to_dict(rec)
    ELSE Doc("mixed")

\* p gets to state q; unlinked: the path was removed, so no process has
\* the file at the path open any more
Step(p, q, unlinked) ==
    [r \in Procs |->
        IF r = p THEN q
        ELSE IF unlinked THEN [procs[r] EXCEPT !.linked = FALSE]
        ELSE procs[r]]

\* The records the processes save: two of different length, two of the
\* same length
RaceRecords ==
    { Obj(Str("tok1"), Str("bearer"), Num(7200), Num(0), Null),
      Obj(Str("tok2"), Str("bearer"), Num(7200), Num(0), Str("public")),
      Obj(Str("tok3"), Str("bearer"), Num(7200), Num(1), Null) }

\* Line 93 of save_token(rec): open(self.token_file, "w")
Open(p) ==
    \E rec \in RaceRecords :
        /\ procs[p].pc = "start"
        /\ file' = Truncated
        /\ procs' = Step(p, Proc("opened", "save_token", rec, "none", TRUE), FALSE)
        /\ UNCHANGED <<now, ticks, last>>

\* Line 94 and the end of the with block: json.dump fills the buffer, close
\* writes it.  The text of a file that was unlinked meanwhile is lost
Write(p) ==
    /\ procs[p].pc = "opened"
    /\ file' = IF procs[p].linked THEN Overwrite(file, procs[p].rec) ELSE file
    /\ procs' = Step(p, [procs[p] EXCEPT !.pc = "done"], FALSE)
    /\ UNCHANGED <<now, ticks, last>>

\* Line 114 of clear_token: self.token_file.exists()
Exists(p) ==
    /\ procs[p].pc = "start"
    /\ procs' = Step(p, Proc(IF has_token(file) THEN "checked" ELSE "done",
                             "clear_token", NoObj, "none", FALSE), FALSE)
    /\ UNCHANGED <<now, ticks, file, last>>

\* Line 115 of clear_token: self.token_file.unlink(), which raises
\* FileNotFoundError when the path does not exist
Unlink(p) ==
    /\ procs[p].pc = "checked"
    /\ file' = NoFile
    /\ procs' = Step(p, [procs[p] EXCEPT
                            !.pc = "done",
                            !.exc = IF has_token(file) THEN "none"
                                    ELSE "FileNotFoundError"],
                     TRUE)
    /\ UNCHANGED <<now, ticks, last>>

----------------------------------------------------------------------------
(* client.py: the exchange *)

\* What requests.post gives: net = "ok" is a response with a status and a body
Response(net, status, body) == [net |-> net, status |-> status, body |-> body]

NoResponse == Response("unused", 0, Doc("notjson"))

TokenBodies ==
    { ObjDoc(Obj(Str("tok1"), Missing, Missing, Missing, Missing)),
      ObjDoc(Obj(Str("tok2"), Str("bearer"), Num(100), Missing, Str("public"))),
      ObjDoc(Obj(Str("tok1"), Missing, Str("2h"), Missing, Missing)) }

BadBodies ==
    { Doc("notjson"), Doc("scalar"), Doc("str"), Doc("strAT"), Doc("list"),
      Doc("listAT"), ObjDoc(Obj(Missing, Str("bearer"), Num(100), Missing, Missing)) }

Responses ==
    { Response("conn", 0, Doc("notjson")), Response("timeout", 0, Doc("notjson")) }
    \cup { Response("ok", s, Doc("notjson")) : s \in {400, 401, 403, 404, 500} }
    \cup { Response("ok", 200, b) : b \in TokenBodies \cup BadBodies }
    \cup { Response("ok", 300, b) :
             b \in { Doc("notjson"),
                     ObjDoc(Obj(Str("tok2"), Missing, Missing, Missing, Missing)) } }

\* requests.Response.raise_for_status raises HTTPError for 4xx and 5xx
raise_for_status(status) == 400 <= status /\ status < 600

\* requests.Response.ok: the status is not 4xx or 5xx.  A 3xx response that
\* requests does not follow (300, or a redirect without Location) is ok
ok(status) == ~raise_for_status(status)

\* Auth42._request_token at time t, given what the POST gives: [exc, status, rec]
RaiseRq(exc, status) == [exc |-> exc, status |-> status, rec |-> NoObj]

\* Mutation of TokenRecord: created_at is not the time of the exchange
TokenRecord_at_epoch(o, t) ==
    Obj(o.access_token,
        Get(o.token_type, Str("bearer")),
        Get(o.expires_in, Num(DefaultExpiresIn)),
        Num(0),
        Get(o.scope, Null))

\* The TokenInfo built at lines 131-137 from the object o
TokenRecord(o, t) ==
    Obj(o.access_token,
        Get(o.token_type, Str("bearer")),
        Get(o.expires_in, Num(DefaultExpiresIn)),
        Num(t),
        Get(o.scope, Null))

\* Lines 125-129 on a body that parsed: "access_token" not in token_data
\* raises TypeError on a number, true, false or null; on a string it is a
\* substring test and on a list a membership test, and
\* token_data["access_token"] then raises TypeError on both
_request_token(x, t) ==
    IF x.net = "conn" THEN RaiseRq("TokenError", NoStatus)
    ELSE IF x.net = "timeout" THEN RaiseRq("TokenError", NoStatus)
    ELSE IF x.status = 400 THEN RaiseRq("TokenError", 400)
    ELSE IF x.status = 401 THEN RaiseRq("AuthenticationError", 401)
    ELSE IF x.status = 403 THEN RaiseRq("AuthorizationError", 403)
    ELSE IF ~ok(x.status) THEN RaiseRq("TokenError", x.status)
    ELSE IF x.body.st \in {"undecodable", "notjson"} THEN RaiseRq("TokenError", NoStatus)
    ELSE IF x.body.st = "scalar" THEN RaiseRq("TypeError", NoStatus)
    ELSE IF x.body.st \in {"str", "list"} THEN RaiseRq("TokenError", NoStatus)
    ELSE IF x.body.st \in {"strAT", "listAT"} THEN RaiseRq("TypeError", NoStatus)
    ELSE IF x.body.o.access_token = Missing THEN RaiseRq("TokenError", NoStatus)
    ELSE [exc |-> "none", status |-> NoStatus, rec |-> TokenRecord(x.body.o, t)]

----------------------------------------------------------------------------
(* client.py: get_token *)

CacheAnswer(exc, hit, ret) == [exc |-> exc, hit |-> hit, ret |-> ret]

\* Mutation of cached_token: the cache is never used
cached_token_never(force, f, t) == CacheAnswer("none", FALSE, Null)

\* Mutation of cached_token: force_refresh does not skip the cache
cached_token_unforced(force, f, t) ==
    LET ld == load_token(f, t)
        ex == is_expired(ld.rec, t)
    IN  IF ld.exc # "none" THEN CacheAnswer(ld.exc, FALSE, Null)
        ELSE IF ~ld.some THEN CacheAnswer("none", FALSE, Null)
        ELSE IF ex.exc # "none" THEN CacheAnswer(ex.exc, FALSE, Null)
        ELSE IF ex.val THEN CacheAnswer("none", FALSE, Null)
        ELSE CacheAnswer("none", TRUE, ld.rec.access_token)

\* Lines 69-72 of get_token: hit = TRUE when the call returns the cached
\* token ret; exc is the exception load_token or is_expired raised
cached_token(force, f, t) ==
    LET ld == load_token(f, t)
        ex == is_expired(ld.rec, t)
    IN  IF force THEN CacheAnswer("none", FALSE, Null)
        ELSE IF ld.exc # "none" THEN CacheAnswer(ld.exc, FALSE, Null)
        ELSE IF ~ld.some THEN CacheAnswer("none", FALSE, Null)
        ELSE IF ex.exc # "none" THEN CacheAnswer(ex.exc, FALSE, Null)
        ELSE IF ex.val THEN CacheAnswer("none", FALSE, Null)
        ELSE CacheAnswer("none", TRUE, ld.rec.access_token)

\* Auth42.get_token(force_refresh) at time t; x is what the POST gives and
\* sv the outcome of the cache write, each used only when the code reaches it
get_token(force, f, t, x, sv) ==
    LET c  == cached_token(force, f, t)
        rq == _request_token(x, t)
        wr == save_token(rq.rec, f, sv)
    IN  IF c.exc # "none" THEN Result(c.exc, NoStatus, Null, 0, 0, f)
        ELSE IF c.hit THEN Result("none", NoStatus, c.ret, 0, 0, f)
        ELSE IF rq.exc # "none" THEN Result(rq.exc, rq.status, Null, 1, 0, f)
        ELSE IF wr.exc # "none" THEN Result(wr.exc, NoStatus, Null, 1, 0, wr.file)
        ELSE Result("none", NoStatus, rq.rec.access_token, 1, 0, wr.file)

\* Auth42.refresh_token
refresh_token(f, t, x, sv) == get_token(TRUE, f, t, x, sv)

\* The inputs a get_token call consumes: a response when it sends the POST,
\* an outcome of the cache write when the exchange gave a record
ExchangeInputs(force, f, t) ==
    IF get_token(force, f, t, NoResponse, "unused").posts = 1
    THEN Responses ELSE {NoResponse}

SaveInputs(x, t) ==
    IF x # NoResponse /\ _request_token(x, t).exc = "none"
    THEN SaveOutcomes ELSE {"unused"}

----------------------------------------------------------------------------
(* client.py: get_headers and get_token_info *)

\* f"Bearer {token}"
Bearer(v) == [k |-> "bearer", n |-> v.n, s |-> v.s]

\* Auth42.get_headers: get_token, its token wrapped in the Authorization header
get_headers(force, f, t, x, sv) ==
    LET r == get_token(force, f, t, x, sv) IN
    IF r.exc = "none" THEN [r EXCEPT !.ret = Bearer(r.ret)] ELSE r

\* What requests.get gives; body is "json" or "notjson"
InfoResponse(net, status, body) == [net |-> net, status |-> status, body |-> body]

NoInfoResponse == InfoResponse("unused", 0, "notjson")

InfoResponses ==
    { InfoResponse("conn", 0, "notjson"),
      InfoResponse("ok", 200, "json"), InfoResponse("ok", 200, "notjson"),
      InfoResponse("ok", 300, "json"),
      InfoResponse("ok", 401, "json"), InfoResponse("ok", 500, "json") }

\* Mutation of unauthorized: every error status triggers the refresh
unauthorized_any_error(g) == g.net = "ok" /\ g.status >= 400

\* Line 177: the GET was answered 401
unauthorized(g) == g.net = "ok" /\ g.status = 401

\* The body of the response, parsed: the value get_token_info returns
JsonBody == [k |-> "json", n |-> 0, s |-> ""]

\* Lines 182-183 on the response g: ["none" and the body] or the exception
InfoBody(g) ==
    IF raise_for_status(g.status) THEN [exc |-> "HTTPError", ret |-> Null]
    ELSE IF g.body = "notjson" THEN [exc |-> "JSONDecodeError", ret |-> Null]
    ELSE [exc |-> "none", ret |-> JsonBody]

\* Mutation of Caught: only the package's own errors are caught
Caught_own_errors(e) ==
    e \in {"TokenError", "AuthenticationError", "AuthorizationError"}

\* except Exception (line 184): the exceptions the handler turns into None
Caught(e) == TRUE

\* Result of get_token_info: as Result, with the Authorization header of each
\* GET sent (Null when it was not sent)
InfoResult(exc, ret, posts, gets, f, auth1, auth2) ==
    [exc |-> IF exc = "none" \/ Caught(exc) THEN "none" ELSE exc,
     status |-> NoStatus,
     ret |-> IF exc = "none" THEN ret ELSE Null,
     posts |-> posts, gets |-> gets, file |-> f,
     auth1 |-> auth1, auth2 |-> auth2]

\* Mutation of InfoAfterRefresh: the cache is as the first acquisition left
\* it, the refreshed record is not in it
InfoAfterRefresh_not_persisted(h1, h2, g2, b2) ==
    IF h2.exc # "none"
      THEN InfoResult(h2.exc, Null, h1.posts + h2.posts, 1, h1.file, h1.ret, Null)
    ELSE IF g2.net = "conn"
      THEN InfoResult("ConnectionError", Null, h1.posts + h2.posts, 2, h1.file,
                      h1.ret, h2.ret)
    ELSE InfoResult(b2.exc, b2.ret, h1.posts + h2.posts, 2, h1.file, h1.ret, h2.ret)

\* Lines 180-183: the forced refresh gave the headers h2 (or raised) after
\* the headers h1 got 401; g2 is the second GET
InfoAfterRefresh(h1, h2, g2, b2) ==
    IF h2.exc # "none"
      THEN InfoResult(h2.exc, Null, h1.posts + h2.posts, 1, h2.file, h1.ret, Null)
    ELSE IF g2.net = "conn"
      THEN InfoResult("ConnectionError", Null, h1.posts + h2.posts, 2, h2.file,
                      h1.ret, h2.ret)
    ELSE InfoResult(b2.exc, b2.ret, h1.posts + h2.posts, 2, h2.file, h1.ret, h2.ret)

\* Lines 175-183: get_headers() gave h1 (or raised); g1 is the first GET
InfoAfterHeaders(h1, t, g1, b1, x2, s2, g2) ==
    IF h1.exc # "none"
      THEN InfoResult(h1.exc, Null, h1.posts, 0, h1.file, Null, Null)
    ELSE IF g1.net = "conn"
      THEN InfoResult("ConnectionError", Null, h1.posts, 1, h1.file, h1.ret, Null)
    ELSE IF ~unauthorized(g1)
      THEN InfoResult(b1.exc, b1.ret, h1.posts, 1, h1.file, h1.ret, Null)
    ELSE InfoAfterRefresh(h1, get_headers(TRUE, h1.file, t, x2, s2), g2, InfoBody(g2))

\* Auth42.get_token_info at time t.  x1, s1: the POST and cache write of the
\* first get_headers(); g1: the first GET; x2, s2: those of the forced
\* refresh; g2: the second GET
get_token_info(f, t, x1, s1, g1, x2, s2, g2) ==
    InfoAfterHeaders(get_headers(FALSE, f, t, x1, s1), t, g1, InfoBody(g1), x2, s2, g2)

\* The inputs a get_token_info call consumes
FirstGetInputs(f, t, x1, s1) ==
    IF get_token(FALSE, f, t, x1, s1).exc = "none"
    THEN InfoResponses ELSE {NoInfoResponse}

RefreshInputs(g1) ==
    IF unauthorized(g1) THEN Responses ELSE {NoResponse}

\* The second GET is sent when the forced refresh returned: its exchange
\* gave a record and the cache write, whose outcome is s2, succeeded
SecondGetInputs(x2, s2, t) ==
    IF x2 # NoResponse /\ _request_token(x2, t).exc = "none" /\ s2 = "ok"
    THEN InfoResponses ELSE {NoInfoResponse}

----------------------------------------------------------------------------
(* The log of the last operation *)

\* The inputs of a call, in the order the code consumes them
Inputs(x1, s1, g1, x2, s2, g2) ==
    [x1 |-> x1, s1 |-> s1, g1 |-> g1, x2 |-> x2, s2 |-> s2, g2 |-> g2]

NoInputs == Inputs(NoResponse, "unused", NoInfoResponse,
                   NoResponse, "unused", NoInfoResponse)

TokenInputs(x, sv) == Inputs(x, sv, NoInfoResponse, NoResponse, "unused", NoInfoResponse)

\* op: the operation; force: its force_refresh; pre, t: the cache file and the
\* time when it was called; exc: the exception it raised or "none"; status:
\* that exception's status_code; ret: the value returned; some: for
\* load_token, whether a record was returned; posts, gets: HTTP requests sent;
\* auth1, auth2: the Authorization header of each GET; in: the inputs
Log(op, force, r, some, auth1, auth2, in) ==
    [op |-> op, force |-> force, pre |-> file, t |-> now,
     exc |-> r.exc, status |-> r.status, ret |-> r.ret, some |-> some,
     posts |-> r.posts, gets |-> r.gets,
     auth1 |-> auth1, auth2 |-> auth2, in |-> in]

NoResult == Result("none", NoStatus, Null, 0, 0, NoFile)

----------------------------------------------------------------------------
(* Initial cache files: every shape the loader distinguishes *)

InitFiles ==
    { NoFile, Doc("undecodable"), Doc("notjson"), Doc("scalar"), Doc("list"),
      ObjDoc(Obj(Missing, Str("bearer"), Num(100), Num(0), Null)),
      ObjDoc(Obj(Str("tok0"), Str("bearer"), Num(100), Num(0), Null)),
      ObjDoc(Obj(Str("tok0"), Str("bearer"), Num(7200), Num(0), Str("public"))),
      ObjDoc(Obj(Str("tok0"), Str("bearer"), Num(30), Num(0), Null)),
      ObjDoc(Obj(Str("tok0"), Missing, Num(100), Num(0), Missing)),
      ObjDoc(Obj(Str("tok0"), Str("bearer"), Missing, Num(0), Null)),
      ObjDoc(Obj(Str("tok0"), Str("bearer"), Num(100), Missing, Null)),
      ObjDoc(Obj(Str("tok0"), Str("bearer"), Num(61), Missing, Null)),
      ObjDoc(Obj(Str("tok0"), Str("bearer"), Missing, Missing, Null)),
      ObjDoc(Obj(Str("tok0"), Str("bearer"), Str("2h"), Num(0), Null)),
      ObjDoc(Obj(Str("tok0"), Str("bearer"), Num(100), Str("today"), Null)),
      ObjDoc(Obj(Str("tok0"), Str("bearer"), Null, Num(0), Null)),
      ObjDoc(Obj(Num(7), Num(7), Num(100), Num(0), Null)) }

\* No call has returned a result that the caller has not taken yet
Idle ==
    [op |-> "none", force |-> FALSE, pre |-> NoFile, t |-> 0,
     exc |-> "none", status |-> NoStatus, ret |-> Null, some |-> FALSE,
     posts |-> 0, gets |-> 0, auth1 |-> Null, auth2 |-> Null,
     in |-> NoInputs]

Init ==
    /\ now = 0
    /\ ticks = 0
    /\ file \in InitFiles
    /\ last = Idle
    /\ procs = NoProcs

----------------------------------------------------------------------------
(* Actions *)

\* Time passes; nothing runs between calls
Tick ==
    \E d \in TickSteps :
        /\ last = Idle
        /\ ticks < MaxTicks
        /\ now' = now + d
        /\ ticks' = ticks + 1
        /\ UNCHANGED <<file, last, procs>>

\* The step of a call that gave r on the inputs in
Call(op, force, r, in) ==
    /\ last = Idle
    /\ file' = r.file
    /\ last' = Log(op, force, r, FALSE, Null, Null, in)
    /\ UNCHANGED <<now, ticks, procs>>

InfoCall(r, in) ==
    /\ last = Idle
    /\ file' = r.file
    /\ last' = Log("get_token_info", FALSE, r, FALSE, r.auth1, r.auth2, in)
    /\ UNCHANGED <<now, ticks, procs>>

GetToken ==
    \E force \in BOOLEAN :
    \E x \in ExchangeInputs(force, file, now) :
    \E sv \in SaveInputs(x, now) :
        Call("get_token", force, get_token(force, file, now, x, sv),
             TokenInputs(x, sv))

RefreshToken ==
    \E x \in Responses :
    \E sv \in SaveInputs(x, now) :
        Call("refresh_token", TRUE, refresh_token(file, now, x, sv),
             TokenInputs(x, sv))

GetTokenInfo ==
    \E x1 \in ExchangeInputs(FALSE, file, now) :
    \E s1 \in SaveInputs(x1, now) :
    \E g1 \in FirstGetInputs(file, now, x1, s1) :
    \E x2 \in RefreshInputs(g1) :
    \E s2 \in SaveInputs(x2, now) :
    \E g2 \in SecondGetInputs(x2, s2, now) :
        InfoCall(get_token_info(file, now, x1, s1, g1, x2, s2, g2),
                 Inputs(x1, s1, g1, x2, s2, g2))

LoadToken ==
    LET ld == load_token(file, now) IN
    /\ last = Idle
    /\ last' = Log("load_token", FALSE,
                   Result(ld.exc, NoStatus, ld.rec.access_token, 0, 0, file),
                   ld.some, Null, Null, NoInputs)
    /\ UNCHANGED <<now, ticks, file, procs>>

ClearToken ==
    /\ last = Idle
    /\ file' = clear_token(file)
    /\ last' = Log("clear_token", FALSE, NoResult, FALSE, Null, Null, NoInputs)
    /\ UNCHANGED <<now, ticks, procs>>

\* The caller takes the result of the call that returned or raised
Return ==
    /\ last # Idle
    /\ last' = Idle
    /\ UNCHANGED <<now, ticks, file, procs>>

Next ==
    \/ Tick
    \/ GetToken
    \/ RefreshToken
    \/ GetTokenInfo
    \/ LoadToken
    \/ ClearToken
    \/ Return

Spec == Init /\ [][Next]_vars

----------------------------------------------------------------------------
(* ClientSpec: Auth42.__init__ *)

\* bool(v) of a str or None: None and the empty string are false
Truthy(v) == v # Null /\ v # Str("")

\* Mutation of Or: the second operand is never used
Or_first(a, b) == a

\* a or b
Or(a, b) == IF Truthy(a) THEN a ELSE b

\* The process environment: each variable a string, or Null when not set
Env(uid, secret) == [FT_UID |-> uid, FT_SECRET |-> secret]

\* Auth42.__init__(client_id, client_secret) under the environment env, with
\* the cache file f: [exc, client_id, client_secret, posts, gets, file].
\* TokenManager.__init__ only builds the path
Auth42_init(client_id, client_secret, env, f) ==
    [exc |-> IF ~Truthy(Or(client_id, env.FT_UID))
                \/ ~Truthy(Or(client_secret, env.FT_SECRET))
             THEN "ValueError" ELSE "none",
     client_id |-> Or(client_id, env.FT_UID),
     client_secret |-> Or(client_secret, env.FT_SECRET),
     posts |-> 0, gets |-> 0, file |-> f]

\* Arguments and environment values: not given, empty, a value
Arguments == {Null, Str(""), Str("arg")}
EnvValues == {Null, Str(""), Str("env")}

\* Log of a construction: the arguments, the environment, the cache file
\* before, and the result
InitLog(client_id, client_secret, env, r) ==
    [op |-> "__init__", client_id |-> client_id, client_secret |-> client_secret,
     env |-> env, pre |-> file, exc |-> r.exc, posts |-> r.posts, gets |-> r.gets,
     self_client_id |-> r.client_id, self_client_secret |-> r.client_secret]

NotConstructed ==
    [op |-> "none", client_id |-> Null, client_secret |-> Null,
     env |-> Env(Null, Null), pre |-> NoFile, exc |-> "none", posts |-> 0,
     gets |-> 0, self_client_id |-> Null, self_client_secret |-> Null]

ClientInit ==
    /\ now = 0
    /\ ticks = 0
    /\ file \in InitFiles
    /\ last = NotConstructed
    /\ procs = NoProcs

Construct ==
    \E client_id \in Arguments : \E client_secret \in Arguments :
    \E uid \in EnvValues : \E secret \in EnvValues :
        /\ file' = Auth42_init(client_id, client_secret, Env(uid, secret), file).file
        /\ last' = InitLog(client_id, client_secret, Env(uid, secret),
                     Auth42_init(client_id, client_secret, Env(uid, secret), file))
        /\ UNCHANGED <<now, ticks, procs>>

\* The caller drops the client, or the ValueError ends main()
Discard ==
    /\ last # NotConstructed
    /\ last' = NotConstructed
    /\ UNCHANGED <<now, ticks, file, procs>>

ClientNext == Construct \/ Discard

ClientSpec == ClientInit /\ [][ClientNext]_vars

----------------------------------------------------------------------------
(* StoreSpec: TokenInfo and TokenManager called directly, in any order *)

\* The TokenInfo objects the caller holds: the five fields, typed as the
\* dataclass declares them (scope a string or None)
Records ==
    { Obj(Str("tok1"), Str("bearer"), Num(100), Num(0), Null),
      Obj(Str("tok2"), Str("bearer"), Num(7200), Num(1), Str("public")),
      Obj(Str("tok1"), Str("Bearer"), Num(61), Num(0), Str("")),
      Obj(Str(""), Str("mac"), Num(30), Num(1), Null) }

\* The call before the last one: its name, its exception, its argument
PrevCall == [op |-> last.op, exc |-> last.exc, rec |-> last.rec]

\* Log of a call of TokenInfo or TokenManager.  rec: the record the call was
\* given (save_token) or made on (is_expired, expires_at); pre, t: the cache
\* file and the time when it was called; exc: the exception raised or
\* "none"; ans: the boolean returned, for load_token whether a record was
\* returned; num: the number returned; out: the record returned
StoreLog(op, rec, exc, ans, num, out) ==
    [op |-> op, rec |-> rec, pre |-> file, t |-> now,
     exc |-> exc, ans |-> ans, num |-> num, out |-> out, prev |-> PrevCall]

StoreIdle ==
    [op |-> "none", rec |-> NoObj, pre |-> NoFile, t |-> 0,
     exc |-> "none", ans |-> FALSE, num |-> 0, out |-> NoObj,
     prev |-> [op |-> "none", exc |-> "none", rec |-> NoObj]]

\* What the cache file holds before the first call
StoreFiles ==
    { NoFile, Doc("notjson"), Doc("undecodable"),
      ObjDoc(Obj(Str("tok0"), Str("bearer"), Num(7200), Num(0), Str("public"))) }

StoreInit ==
    /\ now = 0
    /\ ticks = 0
    /\ file \in StoreFiles
    /\ last = StoreIdle
    /\ procs = NoProcs

\* Time passes between two calls
Elapse ==
    \E d \in TickSteps :
        /\ ticks < MaxTicks
        /\ now' = now + d
        /\ ticks' = ticks + 1
        /\ UNCHANGED <<file, last, procs>>

SaveTokenStep ==
    \E rec \in Records : \E sv \in SaveOutcomes :
        /\ file' = save_token(rec, file, sv).file
        /\ last' = StoreLog("save_token", rec, save_token(rec, file, sv).exc,
                            FALSE, 0, NoObj)
        /\ UNCHANGED <<now, ticks, procs>>

LoadTokenStep ==
    /\ last' = StoreLog("load_token", NoObj, load_token(file, now).exc,
                        load_token(file, now).some, 0, load_token(file, now).rec)
    /\ UNCHANGED <<now, ticks, file, procs>>

ClearTokenStep ==
    /\ file' = clear_token(file)
    /\ last' = StoreLog("clear_token", NoObj, "none", FALSE, 0, NoObj)
    /\ UNCHANGED <<now, ticks, procs>>

HasTokenStep ==
    /\ last' = StoreLog("has_token", NoObj, "none", has_token(file), 0, NoObj)
    /\ UNCHANGED <<now, ticks, file, procs>>

IsExpiredStep ==
    \E rec \in Records :
        /\ last' = StoreLog("is_expired", rec, is_expired(rec, now).exc,
                            is_expired(rec, now).val, 0, NoObj)
        /\ UNCHANGED <<now, ticks, file, procs>>

ExpiresAtStep ==
    \E rec \in Records :
        /\ last' = StoreLog("expires_at", rec, "none", FALSE, expires_at(rec), NoObj)
        /\ UNCHANGED <<now, ticks, file, procs>>

StoreNext ==
    \/ Elapse
    \/ SaveTokenStep
    \/ LoadTokenStep
    \/ ClearTokenStep
    \/ HasTokenStep
    \/ IsExpiredStep
    \/ ExpiresAtStep

StoreSpec == StoreInit /\ [][StoreNext]_vars

----------------------------------------------------------------------------
(* RaceSpec: two processes, each in one call of save_token or clear_token  *)
(* on the same path, their system calls interleaved in every order         *)

\* What the cache file holds before the two calls
RaceFiles ==
    { NoFile, Doc("notjson"),
      ObjDoc(Obj(Str("tok0"), Str("bearer"), Num(7200), Num(0), Str("public"))) }

RaceInit ==
    /\ now = 0
    /\ ticks = 0
    /\ file \in RaceFiles
    /\ last = Idle
    /\ procs = NoProcs

RaceNext ==
    \E p \in Procs :
        \/ Open(p)
        \/ Write(p)
        \/ Exists(p)
        \/ Unlink(p)

RaceSpec == RaceInit /\ [][RaceNext]_vars

----------------------------------------------------------------------------
(* Vocabulary of the properties *)

TokenCalls == {"get_token", "refresh_token"}

\* The file holds a record in the persisted layout: an object whose four
\* required fields are present and of the right type
WellFormed(f) ==
    /\ f.st = "obj"
    /\ IsStr(f.o.access_token)
    /\ IsStr(f.o.token_type)
    /\ IsNum(f.o.expires_in)
    /\ IsNum(f.o.created_at)

\* A well-formed record has not reached its expiry margin at time t
Fresh(f, t) == t - f.o.created_at.n < f.o.expires_in.n - 60

\* The last call was get_token(force_refresh=False)
PlainGetToken == last.op = "get_token" /\ ~last.force

\* The last call was get_token(force_refresh=True) or refresh_token()
ForcedGetToken ==
    \/ last.op = "get_token" /\ last.force
    \/ last.op = "refresh_token"

----------------------------------------------------------------------------
(* C1: get_token(force_refresh=False) on a well-formed record that is not  *)
(* expired at the time of the call sends no POST, returns that record's    *)
(* access token and leaves the cache file unchanged.                       *)
C1_CacheHitIsLocal ==
    (PlainGetToken /\ WellFormed(last.pre) /\ Fresh(last.pre, last.t)) =>
        /\ last.exc = "none"
        /\ last.posts = 0
        /\ last.ret = last.pre.o.access_token
        /\ file = last.pre

\* A record issued at 0 with lifetime 100 is served at 39, its last second
C1_Witness ==
    /\ PlainGetToken /\ WellFormed(last.pre)
    /\ last.pre.o.expires_in = Num(100) /\ last.pre.o.created_at = Num(0)
    /\ last.t = 39
    /\ last.posts = 0 /\ last.ret = last.pre.o.access_token

----------------------------------------------------------------------------
(* C2: get_token(force_refresh=True), and refresh_token(), sends exactly   *)
(* one POST whatever the cache holds and whatever the exchange gives: the  *)
(* cache does not skip it and a failure is not retried.                    *)
C2_ForcedRefreshPostsOnce ==
    ForcedGetToken => last.posts = 1 /\ last.in.x1 # NoResponse

\* A forced refresh over a fresh record, whose exchange is refused
C2_Witness ==
    /\ last.op = "refresh_token"
    /\ WellFormed(last.pre) /\ Fresh(last.pre, last.t)
    /\ last.exc = "AuthenticationError"
    /\ last.posts = 1

----------------------------------------------------------------------------
(* C3: with exchanges that succeed, a token issued at T with lifetime E is *)
(* served from the cache by every get_token() at t with t - T < E - 60,    *)
(* and the first call with t - T >= E - 60 sends one POST, returns the new *)
(* token and stores it; the cache changes only inside a call.              *)
ExchangeSucceeds(x, sv) ==
    /\ x.net = "ok" /\ x.status = 200 /\ x.body \in TokenBodies
    /\ sv = "ok"

C3_Served ==
    (/\ PlainGetToken
     /\ last.pre.st = "obj" /\ last.pre.o.access_token # Missing
     /\ IsNum(last.pre.o.created_at) /\ IsNum(last.pre.o.expires_in)
     /\ (last.in.x1 # NoResponse => ExchangeSucceeds(last.in.x1, last.in.s1))) =>
        IF Fresh(last.pre, last.t)
        THEN /\ last.exc = "none" /\ last.posts = 0
             /\ last.ret = last.pre.o.access_token
             /\ file = last.pre
        ELSE /\ last.exc = "none" /\ last.posts = 1
             /\ last.ret = last.in.x1.body.o.access_token
             /\ file.st = "obj"
             /\ file.o.access_token = last.ret
             /\ file.o.created_at = Num(last.t)

C3_OnlyInCalls ==
    (file' # file) =>
        last'.op \in TokenCalls \cup {"get_token_info", "clear_token"}

----------------------------------------------------------------------------
(* Vocabulary: what the token endpoint answered *)

Success(status) == 200 <= status /\ status < 300

\* A body that is no token response: not JSON, JSON that is not an object,
\* or an object without access_token
Malformed(body) ==
    \/ body.st # "obj"
    \/ body.o.access_token = Missing

\* The exchange failed: no connection, a non-success status, or a success
\* status with a malformed body
ExchangeFailed(x) ==
    \/ x.net # "ok"
    \/ ~Success(x.status)
    \/ Malformed(x.body)

TypedErrors == {"TokenError", "AuthenticationError", "AuthorizationError"}

\* The last call was a get_token or refresh_token that sent the POST
Exchanged == last.op \in TokenCalls /\ last.posts = 1

----------------------------------------------------------------------------
(* C4: when the exchange inside get_token fails (401, 400, 403, any other  *)
(* non-success status, no connection, malformed success body), get_token   *)
(* raises and the cache file is exactly as it was before the call.         *)
C4_FailedExchangeKeepsCache ==
    (Exchanged /\ ExchangeFailed(last.in.x1)) =>
        /\ last.exc # "none"
        /\ last.in.x1.status = 401 => last.exc = "AuthenticationError"
        /\ file = last.pre

----------------------------------------------------------------------------
(* C5: in get_token_info a first GET answered 401 is followed by exactly   *)
(* one forced refresh and exactly one more GET, sent with the refreshed    *)
(* token, and a second GET that fails (401 or another non-2xx) gives       *)
(* absent; a first GET not answered 401 is followed by neither.            *)
FirstGet401 ==
    /\ last.op = "get_token_info"
    /\ last.gets >= 1
    /\ last.in.g1.net = "ok" /\ last.in.g1.status = 401

\* POSTs of the first token acquisition of the last get_token_info
FirstPosts == IF last.in.x1 = NoResponse THEN 0 ELSE 1

RefreshReturned ==
    /\ _request_token(last.in.x2, last.t).exc = "none"
    /\ last.in.s2 = "ok"

----------------------------------------------------------------------------
(* C6: get_token_info never propagates an error: whatever the token        *)
(* acquisition, the cache write, the GETs and the parsing give, it returns *)
(* the metadata or absent.                                                 *)
C6_InfoNeverRaises ==
    (last.op = "get_token_info") =>
        /\ last.exc = "none"
        /\ last.ret \in {Null, JsonBody}

\* The exchange of the first acquisition is refused: absent, no GET
C6_Witness ==
    /\ last.op = "get_token_info"
    /\ last.in.x1.net = "ok" /\ last.in.x1.status = 403
    /\ last.gets = 0
    /\ last.ret = Null /\ last.exc = "none"

----------------------------------------------------------------------------
(* C7: load_token returns absent and does not raise for every cache file   *)
(* that is not a well-formed record: no file, not JSON, JSON that does not *)
(* match the schema, or a required field missing.                          *)
C7_LoadAbsentUnlessWellFormed ==
    (last.op = "load_token" /\ ~WellFormed(last.pre)) =>
        /\ last.exc = "none"
        /\ ~last.some

----------------------------------------------------------------------------
(* C8: no content of the cache file makes get_token(force_refresh=False)   *)
(* fail: the call returns the token of the cached record without a POST,   *)
(* or treats the content as a cache miss and goes on to the exchange.      *)
C8_CacheContentNeverFatal ==
    PlainGetToken =>
        \/ /\ last.posts = 0 /\ last.exc = "none"
           /\ last.ret = last.pre.o.access_token
        \/ last.posts = 1

----------------------------------------------------------------------------
(* C9: the exchange turns every non-success answer into one typed error    *)
(* that get_token lets through: 400 TokenError with status 400, 401        *)
(* AuthenticationError, 403 AuthorizationError, any other non-success      *)
(* status TokenError with that status, no connection TokenError without    *)
(* status.                                                                 *)
C9_ErrorClassification ==
    Exchanged =>
        LET x == last.in.x1 IN
        /\ x.net = "conn" => last.exc = "TokenError" /\ last.status = NoStatus
        /\ (x.net = "ok" /\ x.status = 400) =>
              last.exc = "TokenError" /\ last.status = 400
        /\ (x.net = "ok" /\ x.status = 401) => last.exc = "AuthenticationError"
        /\ (x.net = "ok" /\ x.status = 403) => last.exc = "AuthorizationError"
        /\ (x.net = "ok" /\ ~Success(x.status) /\ x.status \notin {400, 401, 403}) =>
              last.exc = "TokenError" /\ last.status = x.status

----------------------------------------------------------------------------
(* C10: a success status with a body that is no token response (not JSON,  *)
(* not an object, no access_token) raises a typed token-exchange error and *)
(* nothing is persisted.                                                   *)
C10_MalformedBodyTypedError ==
    (/\ Exchanged
     /\ last.in.x1.net = "ok" /\ Success(last.in.x1.status)
     /\ Malformed(last.in.x1.body)) =>
        /\ last.exc = "TokenError"
        /\ file = last.pre

----------------------------------------------------------------------------
(* C11: for every record and every time, is_expired returns true exactly   *)
(* when the time elapsed since created_at is at least expires_in - 60: at  *)
(* expires_in - 60 seconds the record is expired, one second earlier not.  *)
C11_ExpiredIffMarginReached ==
    (last.op = "is_expired") =>
        /\ last.exc = "none"
        /\ last.ans <=>
              (last.t - last.rec.created_at.n >= last.rec.expires_in.n - 60)
        /\ (last.t - last.rec.created_at.n = last.rec.expires_in.n - 60)
              => last.ans
        /\ (last.t - last.rec.created_at.n = last.rec.expires_in.n - 61)
              => ~last.ans

\* The record issued at 0 with lifetime 100 is expired at 40, and the call
\* before, one second earlier, was made on the same record
C11_Witness ==
    /\ last.op = "is_expired"
    /\ last.rec.expires_in = Num(100) /\ last.rec.created_at = Num(0)
    /\ last.t = 40
    /\ last.ans
    /\ last.prev.op = "is_expired" /\ last.prev.rec = last.rec

----------------------------------------------------------------------------
(* C12: a load_token() that follows a save_token(record) which returned    *)
(* gives a record equal to the saved one in each of the five fields,       *)
(* whatever the file held before the save and whatever time has passed.    *)
C12_SaveLoadRoundTrip ==
    (/\ last.op = "load_token"
     /\ last.prev.op = "save_token" /\ last.prev.exc = "none") =>
        /\ last.exc = "none"
        /\ last.ans
        /\ last.out.access_token = last.prev.rec.access_token
        /\ last.out.token_type = last.prev.rec.token_type
        /\ last.out.expires_in = last.prev.rec.expires_in
        /\ last.out.created_at = last.prev.rec.created_at
        /\ last.out.scope = last.prev.rec.scope

\* A record without scope, saved and then loaded 39 seconds after its
\* created_at
C12_Witness ==
    /\ last.op = "load_token"
    /\ last.prev.op = "save_token" /\ last.prev.exc = "none"
    /\ last.prev.rec = Obj(Str("tok1"), Str("bearer"), Num(100), Num(0), Null)
    /\ last.t = 39
    /\ last.ans /\ last.out = last.prev.rec

----------------------------------------------------------------------------
(* Vocabulary: an exchange that gave a record *)

\* The last call was a get_token or refresh_token whose exchange returned a
\* record: _request_token did not raise
ExchangeGaveRecord ==
    /\ last.op \in TokenCalls
    /\ last.posts = 1
    /\ _request_token(last.in.x1, last.t).exc = "none"

\* What a call leaves in the cache file when it changes it: one JSON
\* object, no file, or a file without any document
SingleSlot ==
    (last # Idle /\ file # last.pre) =>
        file.st \in {"obj", "nofile", "notjson"}

----------------------------------------------------------------------------
(* C13: after every get_token call whose exchange gave a record, the cache *)
(* file holds one record, the one built from that exchange (its token, its *)
(* time), in place of what it held, and the call returns that record's     *)
(* access_token; no call leaves more than one record in the file.          *)
C13_ExchangeReplacesRecord ==
    /\ ExchangeGaveRecord =>
          /\ file.st = "obj"
          /\ file.o.access_token = last.in.x1.body.o.access_token
          /\ file.o.created_at = Num(last.t)
          /\ last.exc = "none"
          /\ last.ret = file.o.access_token
    /\ SingleSlot

\* C13, as the code has it: the same when the cache write succeeded; when
\* it failed the call raises OSError and returns no token, and the file is
\* as it was (open failed) or holds no record (the write failed)
C13_ExchangeReplacesRecordIfWritten ==
    /\ ExchangeGaveRecord =>
          IF last.in.s1 = "ok"
          THEN /\ file.st = "obj"
               /\ file.o.access_token = last.in.x1.body.o.access_token
               /\ file.o.created_at = Num(last.t)
               /\ last.exc = "none"
               /\ last.ret = file.o.access_token
          ELSE /\ last.exc = "OSError"
               /\ last.ret = Null
               /\ file = last.pre \/ file.st = "notjson"
    /\ SingleSlot

\* The expired record of tok0 is replaced by the record of tok1 at 40
C13_Witness ==
    /\ PlainGetToken
    /\ ExchangeGaveRecord
    /\ WellFormed(last.pre) /\ last.pre.o.access_token = Str("tok0")
    /\ last.t = 40
    /\ file.o.access_token = Str("tok1") /\ file.o.created_at = Num(40)
    /\ last.ret = Str("tok1")

----------------------------------------------------------------------------
(* C14: Auth42(client_id, client_secret) raises ValueError exactly when    *)
(* the client identifier or the client secret, each taken from the         *)
(* argument if given and from FT_UID / FT_SECRET otherwise, is absent;     *)
(* nothing else is raised, no request is sent and the cache file is as it  *)
(* was.  Absent: None, not set, or the empty string.                       *)
Absent(v) == v = Null \/ v = Str("")

Resolved(argument, variable) == IF Absent(argument) THEN variable ELSE argument

C14_ConstructionNeedsCredentials ==
    (last.op = "__init__") =>
        /\ last.exc \in {"none", "ValueError"}
        /\ last.exc = "ValueError" <=>
              \/ Absent(Resolved(last.client_id, last.env.FT_UID))
              \/ Absent(Resolved(last.client_secret, last.env.FT_SECRET))
        /\ last.exc = "none" =>
              /\ last.self_client_id = Resolved(last.client_id, last.env.FT_UID)
              /\ last.self_client_secret =
                    Resolved(last.client_secret, last.env.FT_SECRET)
        /\ last.posts = 0 /\ last.gets = 0
        /\ file = last.pre

\* The identifier comes from FT_UID, the secret from the argument although
\* FT_SECRET is set, and a cache file exists
C14_Witness ==
    /\ last.op = "__init__"
    /\ last.client_id = Null /\ last.env.FT_UID = Str("env")
    /\ last.client_secret = Str("arg") /\ last.env.FT_SECRET = Str("env")
    /\ last.exc = "none"
    /\ last.self_client_id = Str("env") /\ last.self_client_secret = Str("arg")
    /\ WellFormed(file)

----------------------------------------------------------------------------
(* C15: clear_token returns without error and leaves no cache file: it     *)
(* deletes the file when there is one and changes nothing when there is    *)
(* none; after one clear_token or several in a row, has_token gives false  *)
(* and load_token gives absent.                                            *)
C15_ClearIsIdempotent ==
    /\ (last.op = "clear_token") =>
          /\ last.exc = "none"
          /\ file = NoFile
          /\ last.pre = NoFile => file = last.pre
    /\ (last.op = "clear_token" /\ last.prev.op = "clear_token") =>
          last.pre = NoFile
    /\ (last.op = "has_token" /\ last.prev.op = "clear_token") =>
          /\ last.exc = "none"
          /\ ~last.ans
    /\ (last.op = "load_token" /\ last.prev.op = "clear_token") =>
          /\ last.exc = "none"
          /\ ~last.ans

\* A second clear_token in a row, with no file to delete
C15_Witness ==
    /\ last.op = "clear_token" /\ last.prev.op = "clear_token"
    /\ last.pre = NoFile
    /\ last.exc = "none"
    /\ file = NoFile

----------------------------------------------------------------------------
(* Vocabulary: two processes *)

\* Both processes ran the operation op and both calls are over
BothDone(op) ==
    \A p \in Procs : procs[p].pc = "done" /\ procs[p].op = op

----------------------------------------------------------------------------
(* C16: when two processes have each run save_token on the same path and   *)
(* both calls are over, the file holds the whole record one of them wrote  *)
(* and nothing else: no mixture of the two texts, no truncated text.       *)
C16_LastWriteWins ==
    BothDone("save_token") =>
        \E p \in Procs : file = to_dict(procs[p].rec)

----------------------------------------------------------------------------
(* C20: when two processes have each run clear_token on the same path,     *)
(* where a file existed, and both calls are over, neither call has raised  *)
(* and there is no file, in whatever order their existence checks and      *)
(* their deletions were made.                                              *)
C20_ConcurrentClearNeverFails ==
    BothDone("clear_token") =>
        /\ \A p \in Procs : procs[p].exc = "none"
        /\ file = NoFile

----------------------------------------------------------------------------
(* C17: the record an exchange at time T gives, as get_token stores it,    *)
(* has created_at = T, the access_token of the response, the expires_in of *)
(* the response or 7200 when it has none, its token_type or "bearer", its  *)
(* scope or none; when expires_in is 7200, expires_at is T + 7200 and      *)
(* is_expired is false at T + 7000 and true at T + 7141.                   *)
C17_RecordOfExchange ==
    (ExchangeGaveRecord /\ last.in.s1 = "ok") =>
        /\ file.st = "obj"
        /\ file.o.created_at = Num(last.t)
        /\ file.o.access_token = last.in.x1.body.o.access_token
        /\ file.o.expires_in =
              IF last.in.x1.body.o.expires_in = Missing THEN Num(7200)
              ELSE last.in.x1.body.o.expires_in
        /\ file.o.token_type =
              IF last.in.x1.body.o.token_type = Missing THEN Str("bearer")
              ELSE last.in.x1.body.o.token_type
        /\ file.o.scope =
              IF last.in.x1.body.o.scope = Missing THEN Null
              ELSE last.in.x1.body.o.scope
        /\ (file.o.expires_in = Num(7200)) =>
              /\ expires_at(file.o) = last.t + 7200
              /\ ~is_expired(file.o, last.t + 7000).val
              /\ is_expired(file.o, last.t + 7141).val

\* An exchange at 39 whose response has access_token only
C17_Witness ==
    /\ ExchangeGaveRecord /\ last.in.s1 = "ok"
    /\ last.t = 39
    /\ last.in.x1.body.o = Obj(Str("tok1"), Missing, Missing, Missing, Missing)
    /\ file.o = Obj(Str("tok1"), Str("bearer"), Num(7200), Num(39), Null)
    /\ expires_at(file.o) = 7239

----------------------------------------------------------------------------
(* C18: a cache file that is an object with access_token and without       *)
(* created_at is loaded as a record whose created_at is the time of the    *)
(* load; when its expires_in is a number above 60 or is missing, every     *)
(* get_token(force_refresh=False), at whatever time, returns the token of  *)
(* the file without a POST and leaves the file as it is.                   *)
NoCreatedAt(f) ==
    /\ f.st = "obj"
    /\ f.o.access_token # Missing
    /\ f.o.created_at = Missing

LongLived(f) ==
    \/ f.o.expires_in = Missing
    \/ IsNum(f.o.expires_in) /\ f.o.expires_in.n > 60

C18_UndatedRecordNeverExpires ==
    /\ (last.op = "load_token" /\ NoCreatedAt(last.pre)) =>
          /\ last.exc = "none"
          /\ last.some
          /\ last.ret = last.pre.o.access_token
          /\ load_token(last.pre, last.t).rec.created_at = Num(last.t)
    /\ (PlainGetToken /\ NoCreatedAt(last.pre) /\ LongLived(last.pre)) =>
          /\ last.exc = "none"
          /\ last.posts = 0
          /\ last.ret = last.pre.o.access_token
          /\ file = last.pre

\* A file with lifetime 61 and no created_at still serves its token at 14200
C18_Witness ==
    /\ PlainGetToken
    /\ NoCreatedAt(last.pre)
    /\ last.pre.o.expires_in = Num(61)
    /\ last.t = 14200
    /\ last.posts = 0 /\ last.ret = Str("tok0")

----------------------------------------------------------------------------
(* C19: get_token_info changes the cache file only by the token            *)
(* acquisitions it makes: when no exchange of the call gave a record the   *)
(* file is as it was; when the GET was retried, the file holds the record  *)
(* of the forced refresh, the one whose token the retried GET carried,     *)
(* also when that GET fails and the call returns absent.                   *)
GaveRecord(x) ==
    x # NoResponse /\ _request_token(x, last.t).exc = "none"

C19_InfoChangesCacheByRefreshOnly ==
    (last.op = "get_token_info") =>
        /\ (~GaveRecord(last.in.x1) /\ ~GaveRecord(last.in.x2)) =>
              file = last.pre
        /\ (GaveRecord(last.in.x1) /\ last.in.s1 = "ok" /\ ~GaveRecord(last.in.x2)) =>
              /\ file.st = "obj"
              /\ file.o.access_token = last.in.x1.body.o.access_token
        /\ (last.gets = 2) =>
              /\ GaveRecord(last.in.x2)
              /\ file.st = "obj"
              /\ file.o.access_token = last.in.x2.body.o.access_token
              /\ file.o.created_at = Num(last.t)
              /\ last.auth2 = Bearer(file.o.access_token)

\* The record of tok0 was served, the GET answered 401, the refresh gave
\* tok1, the retried GET failed with 500: absent, and tok1 is in the cache
C19_Witness ==
    /\ last.op = "get_token_info"
    /\ WellFormed(last.pre) /\ last.pre.o.access_token = Str("tok0")
    /\ last.auth1 = Bearer(Str("tok0"))
    /\ last.gets = 2
    /\ last.in.g2.status = 500
    /\ last.ret = Null
    /\ file.o.access_token = Str("tok1")

====
